---- MODULE Spec2Model ----
(***************************************************************************)
(* Model of DiscordGemini.py: the /ask request handler with its two memory *)
(* tiers (short-term dialogue buffer, long-term fact list persisted to a   *)
(* JSON file) and the model gateway with fallback over MODELS.             *)
(*                                                                         *)
(* Texts are TLA+ strings; the string functions of the source (strip,      *)
(* upper, splitlines, startswith, slicing) are computed character by       *)
(* character.  The asyncio event loop is the variable `loop`: the request  *)
(* that is running synchronous code holds it, a request suspended at an    *)
(* await (or whose call_model runs in a worker thread) does not.           *)
(***************************************************************************)
EXTENDS Integers, Sequences, FiniteSets, TLC

(***************************************************************************)
(* Bounds of the model.                                                    *)
(***************************************************************************)
MaxInflight == 2        \* request slots: ask coroutines alive at one time
MaxRequests == 2        \* ask requests accepted in one behaviour of Spec
MaxSessionRequests == 7 \* ask requests accepted in one behaviour of SessionSpec
MaxLiveRequests == 1    \* ask requests accepted in one behaviour of LiveSpec
MaxReplyRequests == 2   \* ask requests accepted in one behaviour of ReplySpec
MaxStartupRequests == 2 \* ask requests accepted in one behaviour of StartupSpec
MaxPromptTurns == 3     \* turns of a buffer handed to build_prompt on its own
MaxTrimTurns == 14      \* entries of a list handed to trim_short_term on its own

(***************************************************************************)
(* Program constants.                                                      *)
(***************************************************************************)
SHORT_TERM_TURNS == 6

MODELS == << "gemma-3-27b-it", "gemma-3-12b-it", "gemma-3-4b-it",
             "gemma-3-2b-it", "gemma-3-1b-it", "gemini-2.5-flash-lite" >>

SENTINEL == "I'm temporarily unavailable."

DISCORD_LIMIT == 2000

PINNED_MARKER == "Always must be included"

FACT_CAP == 20

Users == {"u1", "u2"}
Slots == 1..MaxInflight

(***************************************************************************)
(* Python string functions, on the characters the model's texts use.       *)
(***************************************************************************)
Whitespace == {" ", "\n", "\t"}

\* the letters str.upper changes
UpperOf ==
    [a |-> "A", b |-> "B", c |-> "C", d |-> "D", e |-> "E", f |-> "F", g |-> "G",
     h |-> "H", i |-> "I", j |-> "J", k |-> "K", l |-> "L", m |-> "M", n |-> "N",
     o |-> "O", p |-> "P", q |-> "Q", r |-> "R", s |-> "S", t |-> "T", u |-> "U",
     v |-> "V", w |-> "W", x |-> "X", y |-> "Y", z |-> "Z"]

CharAt(s, i) == SubSeq(s, i, i)

(***************************************************************************)
(* str.upper, str.strip, str.splitlines and the list comprehension of      *)
(* lines 110 and 147 are functions of their argument: s.strip().upper() is *)
(* upper[strip[s]].                                                        *)
(***************************************************************************)
UpperChar == [c \in STRING |-> IF c \in DOMAIN UpperOf THEN UpperOf[c] ELSE c]

\* the concatenation of the strings parts[lo], ..., parts[hi]
RECURSIVE concat(_, _, _)
concat(parts, lo, hi) ==
    IF lo > hi THEN ""
    ELSE IF lo = hi THEN parts[lo]
    ELSE concat(parts, lo, (lo + hi) \div 2) \o concat(parts, (lo + hi) \div 2 + 1, hi)

upper == [s \in STRING |-> concat([i \in 1..Len(s) |-> UpperChar[CharAt(s, i)]], 1, Len(s))]

\* what is left between the first and the last character that is no
\* whitespace: lead and trail count the whitespace before and after it
strip ==
    [s \in STRING |->
        IF \A i \in 1..Len(s) : CharAt(s, i) \in Whitespace THEN ""
        ELSE LET lead  == CHOOSE k \in 0..Len(s) :
                              /\ CharAt(s, k + 1) \notin Whitespace
                              /\ \A i \in 1..k : CharAt(s, i) \in Whitespace
                 trail == CHOOSE k \in 0..Len(s) :
                              /\ CharAt(s, Len(s) - k) \notin Whitespace
                              /\ \A i \in 1..k : CharAt(s, Len(s) + 1 - i) \in Whitespace
             IN  SubSeq(s, lead + 1, Len(s) - trail)]

\* the pieces between line breaks; a final line break opens no further line
LinesBetween ==
    [s \in STRING, breaks \in SUBSET Nat |->
        LET n      == Cardinality(breaks)
            nth(k) == CHOOSE p \in breaks : Cardinality({q \in breaks : q < p}) = k - 1
            count  == IF Len(s) > 0 /\ Len(s) \notin breaks THEN n + 1 ELSE n
        IN  [k \in 1..count |->
                SubSeq(s, IF k = 1 THEN 1 ELSE nth(k - 1) + 1,
                          IF k <= n THEN nth(k) - 1 ELSE Len(s))]]

splitlines == [s \in STRING |-> LinesBetween[s, {i \in 1..Len(s) : CharAt(s, i) = "\n"}]]

startswith(s, p) == Len(s) >= Len(p) /\ SubSeq(s, 1, Len(p)) = p

contains(s, m) == \E i \in 1..(Len(s) - Len(m) + 1) : SubSeq(s, i, i + Len(m) - 1) = m

\* mutant: a dash alone marks a bullet
IsBullet_dash(line) == startswith(line, "-")

\* [line[2:].strip() for line in lines if line.startswith("- ")]
IsBullet(line) == startswith(line, "- ")

BulletTexts ==
    [bullets \in Seq(STRING) |->
        [i \in 1..Len(bullets) |-> strip[SubSeq(bullets[i], 3, Len(bullets[i]))]]]

ParseBullets == [lines \in Seq(STRING) |-> BulletTexts[SelectSeq(lines, IsBullet)]]

(***************************************************************************)
(* Dictionaries are functions on the set of their keys.                    *)
(***************************************************************************)
EmptyDict == [k \in {} |-> << >>]
Put(d, k, v) == [x \in (DOMAIN d) \cup {k} |-> IF x = k THEN v ELSE d[x]]

(***************************************************************************)
(* The memory file: absent, or a text that is blank, not JSON, or the JSON *)
(* document json.dump wrote for a mapping; or a path that open() refuses   *)
(* to read (a directory, a file without permission, bytes that are not     *)
(* UTF-8).                                                                 *)
(***************************************************************************)
FileMissing    == [kind |-> "missing"]
FileBlank      == [kind |-> "blank"]
FileMalformed  == [kind |-> "malformed"]
FileUnreadable == [kind |-> "unreadable"]
FileTruncated  == [kind |-> "blank"]
JsonDump(data) == [kind |-> "json", indent |-> 2, data |-> data]

load_memories(f) ==
    IF f.kind = "missing" THEN EmptyDict
    ELSE IF f.kind = "blank" THEN EmptyDict
    ELSE IF f.kind = "json" THEN f.data
    ELSE EmptyDict

\* open(MEMORY_FILE, "w"), line 54: a path that cannot be read may or may not
\* be one that can be written
OpenForWrite(f) == IF f.kind = "unreadable" THEN {"ok", "OSError"} ELSE {"ok"}

\* exceptions other than the backend's
KeyError == [cls |-> "KeyError", status_code |-> 0, text |-> "long"]
OSError  == [cls |-> "OSError", status_code |-> 0, text |-> ""]

(***************************************************************************)
(* State.                                                                  *)
(*   user_sessions        dict user id -> {"short": <list object>}         *)
(*   lists                the heap of short-term list objects              *)
(*   persistent_memories  dict user id -> {"long": <fact list>}            *)
(*   file                 the memory file                                  *)
(*   loop                 the request running on the event loop, if any    *)
(*   per request slot: pc, the locals user_id, message, long,              *)
(*   prompt, reply, the last call_model invocation (the calls it made and  *)
(*   what it returned: calls, result), the exception that ended the handler*)
(*   (raised) and the text handed to ctx.followup.send (sent)              *)
(*   nreq                 requests accepted so far                         *)
(*   applied              a function of the module applied to arguments by *)
(*                        a caller other than ask: the function, the       *)
(*                        arguments and, once it has run, what it did      *)
(***************************************************************************)
VARIABLES user_sessions, lists, persistent_memories, file, loop,
          pc, user_id, message, long, prompt, reply, sent,
          calls, result, raised, nreq, applied

vars == << user_sessions, lists, persistent_memories, file, loop,
           pc, user_id, message, long, prompt, reply, sent,
           calls, result, raised, nreq, applied >>

\* list objects: the [] of line 194 for a user, and the slice a request makes
\* mutant: the users' sessions start with one list object
ListOfUser_shared(u) == "list:u1"

ListOfUser(u) == "list:" \o u
ListOfSlot(r) == "list:" \o ToString(r)
ListIds == {ListOfUser(u) : u \in Users} \cup {ListOfSlot(r) : r \in Slots}

Turn(role, content) == [role |-> role, content |-> content]

(***************************************************************************)
(* The backend: each chat.send_message either returns a text or raises.    *)
(***************************************************************************)
Ok(text)       == [cls |-> "ok", status_code |-> 200, text |-> text]
QuotaError     == [cls |-> "ClientError", status_code |-> 429, text |-> ""]
BadRequest     == [cls |-> "ClientError", status_code |-> 400, text |-> ""]
ServerError    == [cls |-> "ServerError", status_code |-> 500, text |-> ""]

PinnedFact == "Always must be included: name is Alex"

BulletLines(n) == concat([i \in 1..n |-> "- fact " \o ToString(i) \o "\n"], 1, n)

\* replies to the curator: the no-change signal, and a bullet list with a
\* line that is no bullet and one fact more than the cap
CuratorTexts == { " None \n",
                  "Here you go:\n" \o BulletLines(FACT_CAP + 1) }

\* replies to the filter: none relevant, and one fact of the list
FilterTexts == { "none", "-  Likes tea \n" }

\* replies to the composed prompt of a message
ReplyTexts(msg) == { " re: " \o msg \o "\n" }

Texts(phase, msg) ==
    IF phase = "curate" THEN CuratorTexts
    ELSE IF phase = "filter" THEN FilterTexts
    ELSE ReplyTexts(msg)

\* A backend says, for each position in MODELS, what a call of that model does.
ModelIndexes == 1..Len(MODELS)
AllAnswer(t)       == [i \in ModelIndexes |-> Ok(t)]
QuotaThen(k, out)  == [i \in ModelIndexes |-> IF i <= k THEN QuotaError ELSE out]
AllQuota           == [i \in ModelIndexes |-> QuotaError]

\* the backends of the request handler's specification
Backends(phase, msg) ==
    {AllAnswer(t) : t \in Texts(phase, msg)}
    \cup (IF phase = "curate" THEN {AllQuota, QuotaThen(1, BadRequest)}
         ELSE IF phase = "filter" THEN {}
         ELSE {QuotaThen(1, BadRequest)})

\* the backends of the gateway's specification: every combination of the four
\* outcomes over MODELS, each model answering with a text of its own
OutcomeKinds == {"ok", "quota", "bad request", "server error"}

TextOf(phase, msg, i) ==
    MODELS[i] \o ":\n"
    \o (IF phase = "reply" THEN "re: " \o msg ELSE "- Likes tea")
    \o "\n"

OutcomeOf(kind, text) ==
    IF kind = "ok" THEN Ok(text)
    ELSE IF kind = "quota" THEN QuotaError
    ELSE IF kind = "bad request" THEN BadRequest
    ELSE ServerError

GatewayBackends(phase, msg) ==
    { [i \in ModelIndexes |-> OutcomeOf(k[i], TextOf(phase, msg, i))] :
        k \in [ModelIndexes -> OutcomeKinds] }

(***************************************************************************)
(* call_model, lines 62-72.                                                *)
(***************************************************************************)
\* mutant: every ClientError falls through to the next model
is_quota_any_client_error(e) == e.cls = "ClientError"

\* except ClientError as e: if e.status_code == 429: continue
is_quota(e) == e.cls = "ClientError" /\ e.status_code = 429

\* return r.candidates[0].content.parts[0].text.strip()
model_text(out) == strip[out.text]

\* the for loop from model i on; calls is the log of the calls made so far
RECURSIVE call_model_from(_, _, _)
call_model_from(backend, i, log) ==
    IF i > Len(MODELS)
    THEN [calls |-> log, returned |-> << SENTINEL >>, raised |-> << >>]
    ELSE LET out == backend[i]
             now == Append(log, [model |-> MODELS[i], out |-> out])
         IN  IF out.cls = "ok"
             THEN [calls |-> now, returned |-> << model_text(out) >>, raised |-> << >>]
             ELSE IF is_quota(out)
             THEN call_model_from(backend, i + 1, now)
             ELSE [calls |-> now, returned |-> << >>, raised |-> << out >>]

\* mutant: the sentinel is returned as soon as one model is exhausted
call_model_no_fallback(backend) ==
    LET out == backend[1]
        log == << [model |-> MODELS[1], out |-> out] >>
    IN  IF out.cls = "ok"
        THEN [calls |-> log, returned |-> << model_text(out) >>, raised |-> << >>]
        ELSE IF is_quota(out)
        THEN [calls |-> log, returned |-> << SENTINEL >>, raised |-> << >>]
        ELSE [calls |-> log, returned |-> << >>, raised |-> << out >>]

call_model(backend) == call_model_from(backend, 1, << >>)

(***************************************************************************)
(* update_memories, lines 104-113, on call_model's result.                 *)
(***************************************************************************)
\* mutant: the signal is compared as it comes
is_none_exact(res) == res = "NONE"

is_none(res) == upper[strip[res]] = "NONE"

update_memories(res, existing_memories) ==
    IF is_none(res) THEN existing_memories
    ELSE ParseBullets[splitlines[res]]

(***************************************************************************)
(* get_relevant_memories, lines 142-147, on call_model's result.           *)
(***************************************************************************)
get_relevant_memories(res) ==
    IF is_none(res) THEN << >>
    ELSE ParseBullets[splitlines[res]]

(***************************************************************************)
(* build_prompt, lines 152-177.                                            *)
(***************************************************************************)
PREAMBLE ==
    "System: You are a helpful Discord assistant. "
    \o "Use the user's name when appropriate. "
    \o "Do not reference personal memories unless the user explicitly mentions them. "
    \o "If you do use personal details, do so sparingly and only when directly relevant. "
    \o "All of your messages should be formatted according to Discord markdown standards. "
    \o "Your response can be a MAXIMUM of 2000 characters, any longer and it will be cut off!"
    \o "Focus on providing clear, helpful, and neutral responses.\n\n"

MemoryLines ==
    [ms \in Seq(STRING) |-> concat([i \in 1..Len(ms) |-> "- " \o ms[i] \o "\n"], 1, Len(ms))]

TurnLines(ts) ==
    concat([i \in 1..Len(ts) |->
               (IF ts[i].role = "user" THEN "You" ELSE "Bot")
               \o ": " \o ts[i].content \o "\n"], 1, Len(ts))

needs_filter(long_term, short_term) == long_term # << >> /\ short_term # << >>

\* mutant: the block's header is written whatever the filter returned
compose_always_block(relevant, short_term) ==
    PREAMBLE
    \o "Relevant user memories:\n" \o MemoryLines[relevant] \o "\n"
    \o "Recent conversation:\n"
    \o TurnLines(short_term)

\* lines 153-177, from the filter's return
compose(relevant, short_term) ==
    PREAMBLE
    \o (IF relevant # << >>
        THEN "Relevant user memories:\n" \o MemoryLines[relevant] \o "\n"
        ELSE "")
    \o "Recent conversation:\n"
    \o TurnLines(short_term)

(***************************************************************************)
(* The functions from their arguments, against a backend: what a call does *)
(* is the calls it made to the backend, what it returned (a one-element    *)
(* list) or the exception it raised and, for build_prompt, the arguments   *)
(* it passed to get_relevant_memories.                                     *)
(***************************************************************************)
\* update_memories, lines 77-113
update_memories_with(message_, existing_memories, backend) ==
    LET c == call_model(backend)
    IN  IF c.raised # << >>
        THEN [calls |-> c.calls, result |-> << >>, returned |-> << >>, raised |-> c.raised]
        ELSE [calls |-> c.calls, result |-> c.returned,
              returned |-> << update_memories(c.returned[1], existing_memories) >>,
              raised |-> << >>]

\* mutant: the filter asks the backend whatever the list
get_relevant_memories_always_asks(user_message, long_term, backend) ==
    LET c == call_model(backend)
    IN  IF c.raised # << >>
        THEN [calls |-> c.calls, result |-> << >>, returned |-> << >>, raised |-> c.raised]
        ELSE [calls |-> c.calls, result |-> c.returned,
              returned |-> << get_relevant_memories(c.returned[1]) >>,
              raised |-> << >>]

\* get_relevant_memories, lines 118-147
get_relevant_memories_with(user_message, long_term, backend) ==
    IF long_term = << >>
    THEN [calls |-> << >>, result |-> << >>, returned |-> << << >> >>, raised |-> << >>]
    ELSE LET c == call_model(backend)
         IN  IF c.raised # << >>
             THEN [calls |-> c.calls, result |-> << >>, returned |-> << >>,
                   raised |-> c.raised]
             ELSE [calls |-> c.calls, result |-> c.returned,
                   returned |-> << get_relevant_memories(c.returned[1]) >>,
                   raised |-> << >>]

\* build_prompt, lines 152-177
build_prompt_with(long_term, short_term, backend) ==
    IF needs_filter(long_term, short_term)
    THEN LET user_message == short_term[Len(short_term)].content
             g == get_relevant_memories_with(user_message, long_term, backend)
             filtered == << [user_message |-> user_message, long_term |-> long_term] >>
         IN  IF g.raised # << >>
             THEN [calls |-> g.calls, filtered |-> filtered, relevant |-> << >>,
                   returned |-> << >>, raised |-> g.raised]
             ELSE [calls |-> g.calls, filtered |-> filtered, relevant |-> g.returned,
                   returned |-> << compose(g.returned[1], short_term) >>,
                   raised |-> << >>]
    ELSE [calls |-> << >>, filtered |-> << >>, relevant |-> << >>,
          returned |-> << compose(<< >>, short_term) >>, raised |-> << >>]

(***************************************************************************)
(* trim_short_term, lines 179-180: short_term[-SHORT_TERM_TURNS * 2:]      *)
(***************************************************************************)
\* mutant: the slice keeps one entry too many
trim_short_term_off_by_one(short_term) ==
    IF Len(short_term) <= SHORT_TERM_TURNS * 2 + 1 THEN short_term
    ELSE SubSeq(short_term, Len(short_term) - SHORT_TERM_TURNS * 2, Len(short_term))

\* mutant: the oldest entries are kept
trim_short_term_keeps_oldest(short_term) ==
    IF Len(short_term) <= SHORT_TERM_TURNS * 2 THEN short_term
    ELSE SubSeq(short_term, 1, SHORT_TERM_TURNS * 2)

\* lines 179-180
trim_short_term(short_term) ==
    IF Len(short_term) <= SHORT_TERM_TURNS * 2 THEN short_term
    ELSE SubSeq(short_term, Len(short_term) - SHORT_TERM_TURNS * 2 + 1, Len(short_term))

\* mutant: the marker is appended to the first 2000 characters
truncate_after_limit(text) ==
    IF Len(text) > 2000 THEN SubSeq(text, 1, 2000) \o "..." ELSE text

\* lines 216-217
truncate(text) ==
    IF Len(text) > 2000 THEN SubSeq(text, 1, 1997) \o "..." ELSE text


(***************************************************************************)
(* Initial state: module import, lines 31-57.                              *)
(***************************************************************************)
InitFiles ==
    { JsonDump([u \in {"u1"} |-> [long |-> << PinnedFact, "Likes tea" >>]]) }

NoCall == [fn |-> "none"]

Start(files) ==
    /\ file \in files
    /\ persistent_memories = load_memories(file)
    /\ user_sessions = EmptyDict
    /\ lists = [id \in ListIds |-> << >>]
    /\ loop = {}
    /\ pc = [r \in Slots |-> "idle"]
    /\ user_id = [r \in Slots |-> ""]
    /\ message = [r \in Slots |-> ""]
    /\ long = [r \in Slots |-> << >>]
    /\ prompt = [r \in Slots |-> ""]
    /\ reply = [r \in Slots |-> << >>]
    /\ sent = [r \in Slots |-> << >>]
    /\ calls = [r \in Slots |-> << >>]
    /\ result = [r \in Slots |-> << >>]
    /\ raised = [r \in Slots |-> << >>]
    /\ nreq = 0

Init == Start(InitFiles) /\ applied = NoCall

(***************************************************************************)
(* A coroutine frame that ends drops its local `short`; a list it made is  *)
(* then reachable through user_sessions only, and is renamed to the user's.*)
(***************************************************************************)
HeldBy(r) == {u \in DOMAIN user_sessions : user_sessions[u].short = ListOfSlot(r)}

ListsAfterReturn(r) ==
    [id \in ListIds |->
        IF id = ListOfSlot(r) THEN << >>
        ELSE IF \E u \in HeldBy(r) : id = ListOfUser(u) THEN lists[ListOfSlot(r)]
        ELSE lists[id]]

SessionsAfterReturn(r) ==
    [u \in DOMAIN user_sessions |->
        IF u \in HeldBy(r) THEN [short |-> ListOfUser(u)] ELSE user_sessions[u]]

(***************************************************************************)
(* ask, lines 185-188: the event loop dispatches the command and the       *)
(* handler suspends at await ctx.defer().                                  *)
(***************************************************************************)
Free(r) == pc[r] \in {"idle", "done", "failed"}

AskWith(r, u, n, msg) ==
    /\ Free(r)
    /\ UNCHANGED applied
    /\ \A q \in Slots : q < r => ~Free(q)
    /\ loop = {}
    /\ nreq < n
    /\ nreq' = nreq + 1
    /\ pc' = [pc EXCEPT ![r] = "deferred"]
    /\ user_id' = [user_id EXCEPT ![r] = u]
    /\ message' = [message EXCEPT ![r] = msg]
    /\ long' = [long EXCEPT ![r] = << >>]
    /\ prompt' = [prompt EXCEPT ![r] = ""]
    /\ reply' = [reply EXCEPT ![r] = << >>]
    /\ sent' = [sent EXCEPT ![r] = << >>]
    /\ calls' = [calls EXCEPT ![r] = << >>]
    /\ result' = [result EXCEPT ![r] = << >>]
    /\ raised' = [raised EXCEPT ![r] = << >>]
    /\ UNCHANGED << user_sessions, lists, persistent_memories, file, loop >>

\* the n-th request of a behaviour carries a message of its own
Numbered(n) == "message " \o ToString(n)

Ask(r, u) == AskWith(r, u, MaxRequests, Numbered(nreq + 1))

(***************************************************************************)
(* ask, lines 190-207: resumed after the defer, the handler initialises    *)
(* the user's entries, appends and trims the user turn and enters          *)
(* update_memories, whose call_model (line 104) runs on the event loop.    *)
(***************************************************************************)
Begin(r) ==
    /\ pc[r] = "deferred"
    /\ UNCHANGED applied
    /\ loop = {}
    /\ LET u    == user_id[r]
           us1  == IF u \in DOMAIN user_sessions THEN user_sessions
                   ELSE Put(user_sessions, u, [short |-> ListOfUser(u)])
           pm1  == IF u \in DOMAIN persistent_memories THEN persistent_memories
                   ELSE Put(persistent_memories, u, [long |-> << >>])
           old  == us1[u].short
           app  == Append(lists[old], Turn("user", message[r]))
       IN  IF "long" \in DOMAIN pm1[u]
           THEN /\ lists' = [lists EXCEPT ![old] = app,
                                          ![ListOfSlot(r)] = trim_short_term(app)]
                /\ user_sessions' = [us1 EXCEPT ![u] = [short |-> ListOfSlot(r)]]
                /\ persistent_memories' = pm1
                /\ long' = [long EXCEPT ![r] = pm1[u].long]
                /\ loop' = {r}
                /\ pc' = [pc EXCEPT ![r] = "curate"]
                /\ UNCHANGED raised
           ELSE \* line 199 raises KeyError: the loaded entry has no "long"
                /\ user_sessions' = us1
                /\ persistent_memories' = pm1
                /\ raised' = [raised EXCEPT ![r] = << KeyError >>]
                /\ pc' = [pc EXCEPT ![r] = "failed"]
                /\ UNCHANGED << lists, long, loop >>
    /\ UNCHANGED << file, user_id, message, prompt, reply, sent,
                    calls, result, nreq >>

(***************************************************************************)
(* A call_model invocation runs to its end against a backend.  The         *)
(* curator's and the filter's invocation run on the event loop (their      *)
(* caller holds it from line 190 on); the reply's runs in a worker thread  *)
(* (asyncio.to_thread, line 213).  An exception ends the handler.          *)
(***************************************************************************)
InCall == {"curate", "filter", "reply"}
Returned(phase) == phase \o "_ret"

Call(r, backend) ==
    /\ pc[r] \in InCall
    /\ UNCHANGED applied
    /\ pc[r] \in {"curate", "filter"} => loop = {r}
    /\ LET c == call_model(backend)
       IN  /\ calls' = [calls EXCEPT ![r] = c.calls]
           /\ result' = [result EXCEPT ![r] = c.returned]
           /\ raised' = [raised EXCEPT ![r] = c.raised]
           /\ IF c.raised = << >>
              THEN /\ pc' = [pc EXCEPT ![r] = Returned(pc[r])]
                   /\ UNCHANGED << loop, lists, user_sessions, prompt, long >>
              ELSE /\ pc' = [pc EXCEPT ![r] = "failed"]
                   /\ loop' = loop \ {r}
                   /\ lists' = ListsAfterReturn(r)
                   /\ user_sessions' = SessionsAfterReturn(r)
                   /\ prompt' = [prompt EXCEPT ![r] = ""]
                   /\ long' = [long EXCEPT ![r] = << >>]
    /\ UNCHANGED << persistent_memories, file, user_id, message,
                    reply, sent, nreq >>

(***************************************************************************)
(* ask, lines 207-208 and save_memories line 54: update_memories returns,  *)
(* the user's fact list is replaced and open(MEMORY_FILE, "w") truncates   *)
(* the file.  save_memories is an ordinary call: the handler keeps the     *)
(* event loop while it writes.                                             *)
(***************************************************************************)
\* mutant: the write is awaited, which gives the event loop away
loop_released_during_save(r) == {}

loop_during_save(r) == {r}

CurateReturn(r) ==
    /\ pc[r] = "curate_ret"
    /\ UNCHANGED applied
    /\ loop = {r}
    /\ persistent_memories' =
          [persistent_memories EXCEPT ![user_id[r]] =
              [long |-> update_memories(result[r][1], long[r])]]
    /\ \E opened \in OpenForWrite(file) :
          IF opened = "ok"
          THEN /\ file' = FileTruncated
               /\ pc' = [pc EXCEPT ![r] = "saving"]
               /\ loop' = loop_during_save(r)
               /\ UNCHANGED << user_sessions, lists, long, raised >>
          ELSE \* open raises: the handler ends with the mapping not saved
               /\ raised' = [raised EXCEPT ![r] = << OSError >>]
               /\ pc' = [pc EXCEPT ![r] = "failed"]
               /\ loop' = {}
               /\ lists' = ListsAfterReturn(r)
               /\ user_sessions' = SessionsAfterReturn(r)
               /\ long' = [long EXCEPT ![r] = << >>]
               /\ UNCHANGED file
    /\ UNCHANGED << user_id, message, prompt, reply, sent, calls, result, nreq >>

(***************************************************************************)
(* save_memories line 55, then ask line 212 and build_prompt lines         *)
(* 152-165: json.dump writes the mapping; build_prompt either enters       *)
(* get_relevant_memories (call_model on the event loop, line 142) or       *)
(* composes the prompt at once, and then line 213 hands call_model to a    *)
(* worker thread and the handler suspends.                                 *)
(***************************************************************************)
SaveWrite(r) ==
    /\ pc[r] = "saving"
    /\ UNCHANGED applied
    /\ loop = loop_during_save(r)
    /\ file' = JsonDump(persistent_memories)
    /\ LET long_term  == persistent_memories[user_id[r]].long
           short_term == lists[ListOfSlot(r)]
       IN  IF needs_filter(long_term, short_term)
           THEN /\ pc' = [pc EXCEPT ![r] = "filter"]
                /\ loop' = {r}
                /\ UNCHANGED prompt
           ELSE /\ pc' = [pc EXCEPT ![r] = "reply"]
                /\ prompt' = [prompt EXCEPT ![r] = compose(<< >>, short_term)]
                /\ loop' = {}
    /\ calls' = [calls EXCEPT ![r] = << >>]
    /\ result' = [result EXCEPT ![r] = << >>]
    /\ UNCHANGED << user_sessions, lists, persistent_memories, user_id,
                    message, long, reply, sent, raised, nreq >>

(***************************************************************************)
(* build_prompt lines 165-177 and ask line 213: the filter's call_model    *)
(* returned; the prompt is composed, call_model goes to a worker thread    *)
(* and the handler suspends.                                               *)
(***************************************************************************)
FilterReturn(r) ==
    /\ pc[r] = "filter_ret"
    /\ UNCHANGED applied
    /\ loop = {r}
    /\ prompt' = [prompt EXCEPT ![r] =
                    compose(get_relevant_memories(result[r][1]), lists[ListOfSlot(r)])]
    /\ pc' = [pc EXCEPT ![r] = "reply"]
    /\ loop' = {}
    /\ calls' = [calls EXCEPT ![r] = << >>]
    /\ result' = [result EXCEPT ![r] = << >>]
    /\ UNCHANGED << user_sessions, lists, persistent_memories, file,
                    user_id, message, long, reply, sent, raised, nreq >>

(***************************************************************************)
(* ask, lines 213-225: the worker thread's call_model returned; the        *)
(* handler is resumed, truncates the reply, appends and trims the          *)
(* assistant turn and suspends at await ctx.followup.send(reply).          *)
(***************************************************************************)
ReplyReturn(r) ==
    /\ pc[r] = "reply_ret"
    /\ UNCHANGED applied
    /\ loop = {}
    /\ LET text == truncate(result[r][1])
           app  == Append(lists[ListOfSlot(r)], Turn("assistant", text))
       IN  /\ reply' = [reply EXCEPT ![r] = << text >>]
           /\ lists' = [lists EXCEPT ![ListOfSlot(r)] = trim_short_term(app)]
    /\ user_sessions' = [user_sessions EXCEPT ![user_id[r]] = [short |-> ListOfSlot(r)]]
    /\ pc' = [pc EXCEPT ![r] = "sending"]
    /\ prompt' = [prompt EXCEPT ![r] = ""]
    /\ calls' = [calls EXCEPT ![r] = << >>]
    /\ result' = [result EXCEPT ![r] = << >>]
    /\ UNCHANGED << persistent_memories, file, loop, user_id, message,
                    long, sent, raised, nreq >>

(***************************************************************************)
(* ask, line 225: the followup is sent and the handler returns.            *)
(***************************************************************************)
Delivered(r) ==
    /\ pc[r] = "sending"
    /\ UNCHANGED applied
    /\ loop = {}
    /\ sent' = [sent EXCEPT ![r] = reply[r]]
    /\ pc' = [pc EXCEPT ![r] = "done"]
    /\ lists' = ListsAfterReturn(r)
    /\ user_sessions' = SessionsAfterReturn(r)
    /\ reply' = [reply EXCEPT ![r] = << >>]
    /\ long' = [long EXCEPT ![r] = << >>]
    /\ UNCHANGED << persistent_memories, file, loop, user_id, message,
                    prompt, calls, result, raised, nreq >>

(***************************************************************************)
(* The request handler under concurrent requests of two users.             *)
(***************************************************************************)
Next ==
    \E r \in Slots :
        \/ \E u \in Users : Ask(r, u)
        \/ Begin(r)
        \/ pc[r] \in InCall /\ \E b \in Backends(pc[r], message[r]) : Call(r, b)
        \/ CurateReturn(r)
        \/ SaveWrite(r)
        \/ FilterReturn(r)
        \/ ReplyReturn(r)
        \/ Delivered(r)

Spec == Init /\ [][Next]_vars

(***************************************************************************)
(* The model gateway: one request, against every backend of                *)
(* GatewayBackends in each of its call_model invocations.                  *)
(***************************************************************************)
GatewayNext ==
    \/ \E u \in Users : AskWith(1, u, 1, Numbered(1))
    \/ Begin(1)
    \/ pc[1] \in InCall /\ \E b \in GatewayBackends(pc[1], message[1]) : Call(1, b)
    \/ CurateReturn(1)
    \/ SaveWrite(1)
    \/ FilterReturn(1)
    \/ ReplyReturn(1)
    \/ Delivered(1)

GatewaySpec == Init /\ [][GatewayNext]_vars

(***************************************************************************)
(* The session manager: a long run of requests of one user who has no      *)
(* stored facts and repeats one message, the requests sequential or        *)
(* overlapping in pairs, each succeeding or failing in the curator's or    *)
(* the reply's call_model.                                                 *)
(***************************************************************************)
SessionSlots == {r \in Slots : r <= 2}

SessionBackends(phase, msg) ==
    IF phase = "curate" THEN {AllAnswer(" None \n"), QuotaThen(1, BadRequest)}
    ELSE IF phase = "reply" THEN {AllAnswer(t) : t \in ReplyTexts(msg)} \cup {QuotaThen(1, BadRequest)}
    ELSE {}

SessionNext ==
    \E r \in SessionSlots :
        \/ AskWith(r, "u2", MaxSessionRequests, "hello")
        \/ Begin(r)
        \/ pc[r] \in InCall /\ \E b \in SessionBackends(pc[r], message[r]) : Call(r, b)
        \/ CurateReturn(r)
        \/ SaveWrite(r)
        \/ ReplyReturn(r)
        \/ Delivered(r)

SessionSpec == Init /\ [][SessionNext]_vars

(***************************************************************************)
(* Progress: requests one after the other, each call_model invocation      *)
(* against a backend whose first k models are exhausted and whose others   *)
(* answer or fail, or whose models are all exhausted.  The event loop      *)
(* resumes a handler that can run and a call to the backend comes back,    *)
(* which is weak fairness of the next-state relation.                      *)
(***************************************************************************)
LiveOutcomes(phase, msg) ==
    {Ok(t) : t \in Texts(phase, msg)} \cup {BadRequest, ServerError}

LiveBackends(phase, msg) ==
    {QuotaThen(k, out) : k \in 0..(Len(MODELS) - 1), out \in LiveOutcomes(phase, msg)}
    \cup {AllQuota}

LiveNext ==
    \/ \E u \in Users : AskWith(1, u, MaxLiveRequests, Numbered(nreq + 1))
    \/ Begin(1)
    \/ pc[1] \in InCall /\ \E b \in LiveBackends(pc[1], message[1]) : Call(1, b)
    \/ CurateReturn(1)
    \/ SaveWrite(1)
    \/ FilterReturn(1)
    \/ ReplyReturn(1)
    \/ Delivered(1)

LiveSpec == Init /\ [][LiveNext]_vars /\ WF_vars(LiveNext)

(***************************************************************************)
(* Replies around Discord's limit: requests one after the other, the       *)
(* reply's backend answering with a text of 1999, 2000, 2001 or 2500       *)
(* characters, with a short text, or not at all.                           *)
(***************************************************************************)
Filler(n) == concat([i \in 1..n |-> CharAt("abcdefghij", ((i - 1) % 10) + 1)], 1, n)

LongReplies ==
    { Filler(n) : n \in {DISCORD_LIMIT - 1, DISCORD_LIMIT,
                         DISCORD_LIMIT + 1, DISCORD_LIMIT + 500} }

ReplyBackends(phase, msg) ==
    IF phase = "curate" THEN {AllAnswer(" None \n")}
    ELSE IF phase = "filter" THEN {AllAnswer(t) : t \in FilterTexts}
    ELSE {AllAnswer(t) : t \in LongReplies \cup ReplyTexts(msg)} \cup {AllQuota}

ReplyNext ==
    \/ \E u \in Users : AskWith(1, u, MaxReplyRequests, Numbered(nreq + 1))
    \/ Begin(1)
    \/ pc[1] \in InCall /\ \E b \in ReplyBackends(pc[1], message[1]) : Call(1, b)
    \/ CurateReturn(1)
    \/ SaveWrite(1)
    \/ FilterReturn(1)
    \/ ReplyReturn(1)
    \/ Delivered(1)

ReplySpec == Init /\ [][ReplyNext]_vars

(***************************************************************************)
(* Start with any memory file: absent, blank, not JSON, not readable,      *)
(* written by save_memories, or JSON whose entries are not {"long": ...}.  *)
(* The backend answers every call.                                         *)
(***************************************************************************)
StartupFiles ==
    { FileMissing, FileBlank, FileMalformed, FileUnreadable,
      JsonDump([u \in {"u1"} |-> [long |-> << "Likes tea" >>]]),
      JsonDump([u \in {"u1"} |-> [short |-> << >>]]) }

StartupBackends(phase, msg) ==
    IF phase = "curate" THEN {AllAnswer(" None \n"), AllAnswer("- Likes tea")}
    ELSE {AllAnswer(t) : t \in Texts(phase, msg)}

StartupInit == Start(StartupFiles) /\ applied = NoCall

StartupNext ==
    \/ \E u \in Users : AskWith(1, u, MaxStartupRequests, Numbered(nreq + 1))
    \/ Begin(1)
    \/ pc[1] \in InCall /\ \E b \in StartupBackends(pc[1], message[1]) : Call(1, b)
    \/ CurateReturn(1)
    \/ SaveWrite(1)
    \/ FilterReturn(1)
    \/ ReplyReturn(1)
    \/ Delivered(1)

StartupSpec == StartupInit /\ [][StartupNext]_vars

(***************************************************************************)
(* The functions applied on their own: the arguments are drawn at the      *)
(* start, then the function runs.                                          *)
(***************************************************************************)
\* results of call_model: the no-change signal, bullets with other lines in
\* between, markers that are not "- ", a bullet with nothing after it, and
\* no line at all
ParseTexts ==
    { "none", " None \n", "NONE.", "", "No facts here.",
      "-  Likes tea \n",
      "Sure:\n- Likes tea\nnot a bullet\n-no space\n - indented\n-  name is Alex \n* star\n- \n-",
      "- " \o PinnedFact \o "\n\n- Likes coffee" }

UnitBackends ==
    {AllAnswer(t) : t \in ParseTexts} \cup {AllQuota, QuotaThen(1, BadRequest)}

FactLists == { << >>, << "Likes tea" >>, << PinnedFact, "Likes tea" >> }

\* n turns, user and assistant in turn, each with a content of its own
Turns(n) ==
    [i \in 1..n |-> Turn(IF i % 2 = 1 THEN "user" ELSE "assistant", "turn " \o ToString(i))]

UnitInputs ==
    { [fn |-> "update_memories", args |-> << "hello", f, b >>, state |-> "called"] :
          f \in FactLists, b \in UnitBackends }
    \cup
    { [fn |-> "get_relevant_memories", args |-> << m, f, b >>, state |-> "called"] :
          m \in {"", "hello"}, f \in FactLists, b \in UnitBackends }
    \cup
    { [fn |-> "build_prompt", args |-> << f, Turns(n), b >>, state |-> "called"] :
          f \in FactLists, n \in 0..MaxPromptTurns, b \in UnitBackends }
    \cup
    { [fn |-> "trim_short_term", args |-> << Turns(n) >>, state |-> "called"] :
          n \in 0..MaxTrimTurns }

UnitInit == Start(InitFiles) /\ applied \in UnitInputs

Ran(fn, did) ==
    /\ applied' = [fn |-> fn, args |-> applied.args, state |-> "ran", did |-> did]
    /\ UNCHANGED << user_sessions, lists, persistent_memories, file, loop,
                    pc, user_id, message, long, prompt, reply, sent,
                    calls, result, raised, nreq >>

ApplyUpdateMemories ==
    /\ applied.fn = "update_memories" /\ applied.state = "called"
    /\ Ran("update_memories",
           update_memories_with(applied.args[1], applied.args[2], applied.args[3]))

ApplyGetRelevantMemories ==
    /\ applied.fn = "get_relevant_memories" /\ applied.state = "called"
    /\ Ran("get_relevant_memories",
           get_relevant_memories_with(applied.args[1], applied.args[2], applied.args[3]))

ApplyBuildPrompt ==
    /\ applied.fn = "build_prompt" /\ applied.state = "called"
    /\ Ran("build_prompt",
           build_prompt_with(applied.args[1], applied.args[2], applied.args[3]))

ApplyTrimShortTerm ==
    /\ applied.fn = "trim_short_term" /\ applied.state = "called"
    /\ Ran("trim_short_term",
           [returned |-> << trim_short_term(applied.args[1]) >>, raised |-> << >>])

UnitNext ==
    \/ ApplyUpdateMemories
    \/ ApplyGetRelevantMemories
    \/ ApplyBuildPrompt
    \/ ApplyTrimShortTerm

UnitSpec == UnitInit /\ [][UnitNext]_vars

(***************************************************************************)
(* trim_short_term applied on its own, or the requests of one user handled *)
(* one after the other: a request is accepted when the one before it has   *)
(* returned, and a call to the backend answers or fails.                   *)
(***************************************************************************)
TrimInputs == {i \in UnitInputs : i.fn = "trim_short_term"}

SequentialInit == Start(InitFiles) /\ applied \in TrimInputs \cup {NoCall}

SequentialNext ==
    \/ ApplyTrimShortTerm
    \/ /\ applied = NoCall
       /\ \/ AskWith(1, "u2", MaxSessionRequests, Numbered(nreq + 1))
          \/ Begin(1)
          \/ pc[1] \in InCall /\ \E b \in SessionBackends(pc[1], message[1]) : Call(1, b)
          \/ CurateReturn(1)
          \/ SaveWrite(1)
          \/ ReplyReturn(1)
          \/ Delivered(1)

SequentialSpec == SequentialInit /\ [][SequentialNext]_vars

(***************************************************************************)
(* Properties.                                                             *)
(***************************************************************************)
CapacityExhausted(out) == out.cls = "ClientError" /\ out.status_code = 429
CallReturned(r) == pc[r] \in {"curate_ret", "filter_ret", "reply_ret"}
InListOrder(log) == \A i \in 1..Len(log) : i <= Len(MODELS) /\ log[i].model = MODELS[i]

\* C1: a call_model invocation that has returned made its calls in the order
\* of MODELS; if all calls but the last raised capacity exhaustion and the
\* last succeeded, the result is the last model's text (stripped) -- N+1
\* calls for N exhausted models; if every call raised capacity exhaustion,
\* all len(MODELS) models were called, the result is the sentinel, and the
\* handler did not fail.
C1_FallbackThenResult ==
    \A r \in Slots :
        LET log == calls[r]
            n   == Len(log)
        IN  /\ CallReturned(r) =>
                /\ n >= 1
                /\ InListOrder(log)
                /\ raised[r] = << >>
                /\ ( /\ \A i \in 1..(n - 1) : CapacityExhausted(log[i].out)
                     /\ log[n].out.cls = "ok" )
                   => result[r] = << strip[log[n].out.text] >>
                /\ (\A i \in 1..n : CapacityExhausted(log[i].out))
                   => n = Len(MODELS) /\ result[r] = << SENTINEL >>
                /\ log[n].out.cls = "ok" \/ \A i \in 1..n : CapacityExhausted(log[i].out)
            /\ (n >= 1 /\ \A i \in 1..n : CapacityExhausted(log[i].out))
                  => pc[r] # "failed" /\ raised[r] = << >>

\* C1 witness: two models were exhausted and the third one's text came back
C1_Witness ==
    \E r \in Slots :
        /\ pc[r] = "reply_ret"
        /\ Len(calls[r]) = 3
        /\ calls[r][3].out.cls = "ok"
        /\ result[r] = << "gemma-3-4b-it:\nre: message 1" >>

\* C2: a backend error other than capacity exhaustion ends the invocation and
\* the handler with that error: no call follows it (every call that is
\* followed by another one raised capacity exhaustion), and nothing is
\* returned, the sentinel included.
C2_OtherErrorPropagates ==
    \A r \in Slots :
        LET log == calls[r]
            n   == Len(log)
        IN  /\ \A i \in 1..(n - 1) : CapacityExhausted(log[i].out)
            /\ (n >= 1 /\ log[n].out.cls # "ok" /\ ~CapacityExhausted(log[n].out))
                  => /\ pc[r] = "failed"
                     /\ raised[r] = << log[n].out >>
                     /\ result[r] = << >>
            /\ pc[r] = "failed"
                  => n >= 1 /\ log[n].out.cls # "ok" /\ ~CapacityExhausted(log[n].out)

\* C2 witness: the second model failed with a 400 while the third would answer
C2_Witness ==
    \E r \in Slots :
        /\ pc[r] = "failed"
        /\ Len(calls[r]) = 2
        /\ raised[r] = << BadRequest >>

Buffer(u) == lists[user_sessions[u].short]
Range(seq) == {seq[i] : i \in 1..Len(seq)}
Pinned(f) == contains(f, PINNED_MARKER)

\* C3: the short-term buffer stored for a user never holds more than
\* 2 * SHORT_TERM_TURNS entries, whatever requests ran, overlapped or failed.
C3_BufferBounded ==
    \A u \in DOMAIN user_sessions : Len(Buffer(u)) <= 2 * SHORT_TERM_TURNS

\* C3 witness: all handlers are suspended or ended, the buffer is full and
\* its oldest entry is an assistant turn, so a trim has evicted the user turn
\* before it
C3_Witness ==
    /\ loop = {}
    /\ "u2" \in DOMAIN user_sessions
    /\ Len(Buffer("u2")) = 2 * SHORT_TERM_TURNS
    /\ Buffer("u2")[1].role = "assistant"

\* C4: once the curation step has replaced a user's facts (the handler is in
\* save_memories), the list has at most 20 entries and holds every pinned
\* fact of the list the request started with.
C4_CapAndPinnedKept ==
    \A r \in Slots :
        pc[r] = "saving" =>
            LET after == persistent_memories[user_id[r]].long
            IN  /\ Len(after) <= FACT_CAP
                /\ \A f \in Range(long[r]) : Pinned(f) => f \in Range(after)

\* C5: when call_model's result for the curator is NONE up to case and
\* surrounding whitespace, the user's stored facts after the curation step
\* are the facts the request started with.
C5_NoneKeepsFacts ==
    \A r \in Slots :
        (pc[r] = "saving" /\ upper[strip[result[r][1]]] = "NONE")
            => persistent_memories[user_id[r]].long = long[r]

\* C5 witness: the curator's backend said " None " for a user with facts
C5_Witness ==
    \E r \in Slots :
        /\ pc[r] = "saving"
        /\ result[r] = << "None" >>
        /\ long[r] = << PinnedFact, "Likes tea" >>
        /\ calls[r][1].out.text = " None \n"

\* C6: every accepted request eventually delivers a reply text to the user.
C6_EventuallyReplies ==
    \A r \in Slots : (pc[r] = "deferred") ~> (pc[r] = "done" /\ sent[r] # << >>)

\* C7: once every request has finished, the user turn and the assistant
\* turn each delivered request appended are in the user's buffer, in that
\* order (no run of Spec is long enough for a trim to evict a turn).
C7_NoTurnLost ==
    (\A q \in Slots : pc[q] \in {"idle", "done", "failed"}) =>
        \A r \in Slots :
            pc[r] = "done" =>
                \E i, j \in 1..Len(Buffer(user_id[r])) :
                    /\ i < j
                    /\ Buffer(user_id[r])[i] = Turn("user", message[r])
                    /\ Buffer(user_id[r])[j] = Turn("assistant", sent[r][1])

\* C8: a request whose model call is in flight does not hold the event loop.
C8_CallsOffTheLoop ==
    \A r \in Slots : pc[r] \in InCall => loop # {r}

\* C9: whenever no handler is running (each is suspended or has ended), the
\* memory file holds the in-memory mapping.
C9_FileIsMemory ==
    loop = {} => load_memories(file) = persistent_memories

\* C10: at most one request is inside save_memories, and a file that has been
\* written holds, for every user in it, that user's current facts.
C10_WritesSerialized ==
    /\ Cardinality({r \in Slots : pc[r] = "saving"}) <= 1
    /\ file.kind = "json" =>
          \A u \in DOMAIN file.data :
              /\ u \in DOMAIN persistent_memories
              /\ file.data[u] = persistent_memories[u]

\* C10 witness: one user's request is inside save_memories while another
\* user's request has its reply call in a worker thread
C10_Witness ==
    \E r, q \in Slots :
        /\ pc[r] = "saving"
        /\ pc[q] \in {"reply", "reply_ret"}
        /\ user_id[r] # user_id[q]
        /\ persistent_memories[user_id[r]].long # long[r]

\* C11: when the reply's call_model has returned, the handler's reply is the
\* result itself if that has at most 2000 characters, and otherwise its first
\* 1997 characters followed by "...", 2000 characters in all; the assistant
\* turn appended to the buffer holds that text, and the text handed to
\* ctx.followup.send is that text.
C11_SentWithinLimit ==
    [][\A r \in Slots :
          /\ (pc[r] = "reply_ret" /\ pc'[r] = "sending") =>
                LET t   == result[r][1]
                    s   == reply'[r][1]
                    buf == lists'[user_sessions'[user_id[r]].short]
                IN  /\ Len(s) <= DISCORD_LIMIT
                    /\ Len(t) <= DISCORD_LIMIT => s = t
                    /\ Len(t) > DISCORD_LIMIT =>
                          /\ Len(s) = DISCORD_LIMIT
                          /\ SubSeq(s, 1, DISCORD_LIMIT - 3) = SubSeq(t, 1, DISCORD_LIMIT - 3)
                          /\ SubSeq(s, DISCORD_LIMIT - 2, DISCORD_LIMIT) = "..."
                    /\ buf[Len(buf)] = Turn("assistant", s)
          /\ (pc[r] = "sending" /\ pc'[r] = "done") => sent'[r] = reply[r]
      ]_vars

\* C11 witness: a reply of 2000 characters ending in the marker was sent and
\* is the content of the newest turn of the user's buffer
C11_Witness ==
    \E r \in Slots :
        /\ pc[r] = "done"
        /\ Len(sent[r][1]) = DISCORD_LIMIT
        /\ SubSeq(sent[r][1], DISCORD_LIMIT - 2, DISCORD_LIMIT) = "..."
        /\ Buffer(user_id[r])[Len(Buffer(user_id[r]))] = Turn("assistant", sent[r][1])

AppliedRan(fn) == applied.fn = fn /\ applied.state = "ran"

\* C12: get_relevant_memories applied to an empty fact list returns the
\* empty list, raises nothing and makes no call to the backend, whatever the
\* message and the backend.
C12_EmptyFactsNoCall ==
    (AppliedRan("get_relevant_memories") /\ applied.args[2] = << >>) =>
        /\ applied.did.returned = << << >> >>
        /\ applied.did.calls = << >>
        /\ applied.did.raised = << >>

\* C12 witness: the filter ran on an empty list against a backend whose
\* second model fails
C12_Witness ==
    /\ AppliedRan("get_relevant_memories")
    /\ applied.args[2] = << >>
    /\ applied.args[3] = QuotaThen(1, BadRequest)
    /\ applied.did.returned = << << >> >>

\* C13: the list get_relevant_memories returns holds only facts of the list
\* it was given, also when build_prompt calls it.
C13_FilterReturnsSubset ==
    /\ (AppliedRan("get_relevant_memories") /\ applied.did.raised = << >>) =>
            Range(applied.did.returned[1]) \subseteq Range(applied.args[2])
    /\ (AppliedRan("build_prompt") /\ applied.did.relevant # << >>) =>
            Range(applied.did.relevant[1]) \subseteq Range(applied.args[1])

\* the lines of a result that begin with "- ", by their position
BulletPositions(lines) ==
    {i \in 1..Len(lines) : Len(lines[i]) >= 2 /\ SubSeq(lines[i], 1, 2) = "- "}

KthOf(S, k) == CHOOSE p \in S : Cardinality({q \in S : q < p}) = k - 1

\* facts are, in the order of the lines, the bullet lines of res without the
\* marker and without surrounding whitespace
FactsOfBullets(res, facts) ==
    LET lines == splitlines[res]
        B     == BulletPositions(lines)
    IN  /\ Len(facts) = Cardinality(B)
        /\ \A k \in 1..Len(facts) :
              facts[k] = strip[SubSeq(lines[KthOf(B, k)], 3, Len(lines[KthOf(B, k)]))]

ParserRan ==
    /\ applied.fn \in {"update_memories", "get_relevant_memories"}
    /\ applied.state = "ran"
    /\ applied.did.result # << >>

\* C14 as claimed: whatever call_model returned to the curator or the filter,
\* the facts returned are the bullet lines of that result, so none when no
\* line is a bullet.
C14_EveryResultParsed ==
    ParserRan => FactsOfBullets(applied.did.result[1], applied.did.returned[1])

\* C14 amended: the facts returned are the bullet lines of the result, in
\* order, without marker and surrounding whitespace, and none when no line is
\* a bullet -- except that the curator, when the result is NONE up to case
\* and surrounding whitespace, returns the list it was given.
C14_ResultParsedUnlessNone ==
    ParserRan =>
        IF applied.fn = "update_memories"
           /\ upper[strip[applied.did.result[1]]] = "NONE"
        THEN applied.did.returned[1] = applied.args[2]
        ELSE FactsOfBullets(applied.did.result[1], applied.did.returned[1])

\* C14 witness: a result with bullets, other lines in between and markers
\* that are not "- " gave three facts, the last one empty
C14_Witness ==
    /\ ParserRan
    /\ Len(splitlines[applied.did.result[1]]) = 9
    /\ applied.did.returned = << << "Likes tea", "name is Alex", "" >> >>

\* C15: the mapping loaded from a memory file that is absent, blank, not
\* JSON or not readable is empty, and whatever the file was at the start, no
\* request fails while the backend answers every call.
C15_BadFileNeverFatal ==
    /\ (nreq = 0 /\ file.kind \in {"missing", "blank", "malformed", "unreadable"})
           => persistent_memories = EmptyDict
    /\ \A r \in Slots : pc[r] # "failed"

IsMostRecent(out, seq, n) ==
    /\ Len(out) = IF Len(seq) < n THEN Len(seq) ELSE n
    /\ \A i \in 1..Len(out) : out[i] = seq[Len(seq) - Len(out) + i]

BufferOrEmpty(u) == IF u \in DOMAIN user_sessions THEN Buffer(u) ELSE << >>

\* C16: trim_short_term returns the last min(len, 12) entries of its
\* argument in their order; and when the requests of a user are handled one
\* after the other, each step that appends a turn (the user's message when
\* the handler starts, the reply when its call has returned) leaves as the
\* user's buffer the most recent 12 entries of the old buffer followed by
\* the new turn, and no other step changes the buffer.
C16_BufferIsMostRecent ==
    [][/\ AppliedRan("trim_short_term")' =>
             IsMostRecent(applied'.did.returned[1], applied'.args[1], 12)
       /\ applied = NoCall =>
             \A u \in Users :
                 LET old == BufferOrEmpty(u)
                     new == BufferOrEmpty(u)'
                 IN  IF \E r \in Slots : user_id[r] = u /\ pc[r] = "deferred" /\ pc'[r] = "curate"
                     THEN \E r \in Slots :
                            IsMostRecent(new, Append(old, Turn("user", message[r])), 12)
                     ELSE IF \E r \in Slots : user_id[r] = u /\ pc[r] = "reply_ret" /\ pc'[r] = "sending"
                     THEN \E r \in Slots :
                            IsMostRecent(new, Append(old, Turn("assistant", reply'[r][1])), 12)
                     ELSE new = old
      ]_vars

\* C16 witness: after seven requests handled one after the other the buffer
\* holds 12 turns, the oldest of them later than the first message
C16_Witness ==
    /\ applied = NoCall
    /\ nreq = MaxSessionRequests
    /\ \A r \in Slots : Free(r)
    /\ "u2" \in DOMAIN user_sessions
    /\ Len(Buffer("u2")) = 12
    /\ Buffer("u2")[1].content # Numbered(1)
    /\ Buffer("u2")[12] = Turn("assistant", sent[1][1])

\* the first position of sub in s, 0 when it does not occur
IndexOf(s, sub) ==
    LET at == {i \in 1..(Len(s) - Len(sub) + 1) : SubSeq(s, i, i + Len(sub) - 1) = sub}
    IN  IF at = {} THEN 0 ELSE CHOOSE i \in at : \A j \in at : i <= j

TurnLine(t) == (IF t.role = "user" THEN "You" ELSE "Bot") \o ": " \o t.content \o "\n"

\* C17: build_prompt calls get_relevant_memories exactly when the fact list
\* and the buffer are both non-empty, with the content of the last turn and
\* the whole fact list; the prompt it returns starts with the preamble, has
\* the "Relevant user memories" block exactly when the filter was called
\* and returned a fact, and has a line for every turn, in the buffer's order,
\* after the preamble.
C17_PromptComposition ==
    AppliedRan("build_prompt") =>
        LET facts == applied.args[1]
            turns == applied.args[2]
            did   == applied.did
        IN  /\ did.filtered # << >> <=> (facts # << >> /\ turns # << >>)
            /\ did.filtered # << >> =>
                  did.filtered = << [user_message |-> turns[Len(turns)].content,
                                     long_term |-> facts] >>
            /\ did.raised = << >> =>
                  LET p   == did.returned[1]
                      pos == [i \in 1..Len(turns) |-> IndexOf(p, TurnLine(turns[i]))]
                  IN  /\ SubSeq(p, 1, Len(PREAMBLE)) = PREAMBLE
                      /\ IndexOf(p, "Relevant user memories:") # 0
                            <=> (did.filtered # << >> /\ did.relevant[1] # << >>)
                      /\ \A i \in 1..Len(turns) : pos[i] > Len(PREAMBLE)
                      /\ \A i \in 1..(Len(turns) - 1) : pos[i] < pos[i + 1]

\* C17 witness: a prompt built from two facts and the longest buffer, with
\* the block of the facts the filter returned
C17_Witness ==
    /\ AppliedRan("build_prompt")
    /\ Len(applied.args[1]) = 2
    /\ Len(applied.args[2]) = MaxPromptTurns
    /\ applied.did.raised = << >>
    /\ applied.did.relevant[1] # << >>
    /\ IndexOf(applied.did.returned[1], "Relevant user memories:\n- ") = Len(PREAMBLE) + 1

FactsOrEmpty(u) ==
    IF u \in DOMAIN persistent_memories THEN persistent_memories[u].long ELSE << >>

\* C18: a step of a request of one user leaves every other user's buffer
\* and fact list as they were, and neither creates nor removes another
\* user's entries, whatever the other requests in progress.
C18_OtherUsersUntouched ==
    [][\A v \in Users :
          (\A r \in Slots : pc'[r] # pc[r] => user_id'[r] # v) =>
              /\ BufferOrEmpty(v)' = BufferOrEmpty(v)
              /\ FactsOrEmpty(v)' = FactsOrEmpty(v)
              /\ (v \in DOMAIN user_sessions') <=> (v \in DOMAIN user_sessions)
              /\ (v \in DOMAIN persistent_memories') <=> (v \in DOMAIN persistent_memories)
      ]_vars

\* C18 witness: the requests of two users overlapped and have both been
\* answered; each user's buffer holds that user's own two turns and the
\* users' fact lists differ
C18_Witness ==
    /\ user_id[1] # user_id[2]
    /\ pc[1] = "done" /\ pc[2] = "done"
    /\ \A r \in Slots :
          Buffer(user_id[r]) = << Turn("user", message[r]), Turn("assistant", sent[r][1]) >>
    /\ FactsOrEmpty("u1") # FactsOrEmpty("u2")

\* C19: in every user's buffer the roles alternate: no two consecutive
\* turns are both the user's or both the assistant's.
C19_RolesAlternate ==
    \A u \in DOMAIN user_sessions :
        \A i \in 1..(Len(Buffer(u)) - 1) : Buffer(u)[i].role # Buffer(u)[i + 1].role

\* every model was tried and raised 429, so call_model returned the sentinel
AllExhausted(r) ==
    /\ Len(calls[r]) = Len(MODELS)
    /\ \A i \in 1..Len(calls[r]) : CapacityExhausted(calls[r][i].out)
    /\ result[r] = << SENTINEL >>

\* C20: when every model was capacity-exhausted in the curator's call, the
\* handler's step from the call's return to the save (lines 207-208) leaves
\* the user's fact list in memory as it was before the step, so that the
\* file is written with the list unchanged.
C20_SentinelKeepsFacts ==
    [][\A r \in Slots :
          (pc[r] = "curate_ret" /\ AllExhausted(r) /\ pc'[r] # "curate_ret") =>
              FactsOrEmpty(user_id[r])' = FactsOrEmpty(user_id[r])
      ]_vars

====
